---- MODULE Spec2Model ----
(***************************************************************************)
(* Model of the training pipeline: the training script (src/train.py), the *)
(* trainer (src/trainers/base_trainer.py) and the threshold-accuracy       *)
(* metric (src/metrics/threshold_accuracy.py).                             *)
(*                                                                         *)
(* Numbers.  Losses, parameters and depth values are integers; a mean is   *)
(* kept as the pair <<value, weight>> of the running sums torchmetrics'    *)
(* MeanMetric keeps (compute() is value / weight, and <<0, 0>> is the nan  *)
(* of 0 / 0).  Depth values are counted in units of 1e-6, so the clamp     *)
(* floor 1e-6 is the integer 1.  Wall-clock time (Timer) is not modelled.  *)
(***************************************************************************)
EXTENDS Integers, Sequences, FiniteSets, TLC

\* ------------------------------------------------------------------ bounds
MaxEpochs == 3
MaxInterval == 2
MaxVerbose == 2
MaxElems == 4
MaxResumes == 1

\* ------------------------------------------------------- program constants
StepSize == 5
ClampFloor == 1

\* StepLR's gamma = 0.1 and the configured learning rate, as <<num, den>>.
Gamma == <<1, 10>>
LearningRate == <<1, 1000>>
\* ema_weight of the configuration, as <<num, den>>.
EmaWeight == <<1, 2>>
\* batch_size of the configuration, and the sizes of the two datasets.
BatchSize == 2
TrainSizes == {3}
ValSizes == {3}
\* The scalar a criterion can return for a batch.
LossValues == {1, 4}
\* The depths a prediction or a target element can hold, in units of 1e-6.
DepthValues == {-3, 0, 1, 2, 4, 5, 8}

\* ----------------------------------------------------------- configuration
\* A model name is its "_"-separated words; "x" in name is a word of it.
TransformLevels == {"light", "standard", "extreme"}
ModelNames == { <<"res", "unet">>, <<"Dense", "FPN">>, <<"alex", "unet">>,
                <<"alex", "fpn">>, <<"res", "net">> }

Lower(w) ==
    CASE w = "Dense" -> "dense"
      [] w = "FPN" -> "fpn"
      [] OTHER -> w

LowerName(name) == [j \in 1..Len(name) |-> Lower(name[j])]

Contains(name, w) == \E j \in 1..Len(name) : name[j] = w

Backbones == {"vgg", "res", "dense", "efficient"}

\* train.py 86-93: the train transforms of a level, or the ValueError.
TrainTransforms(level) ==
    CASE level = "light" -> "light_train_transforms"
      [] level = "standard" -> "standard_train_transforms"
      [] level = "heavy" -> "heavy_train_transforms"
      [] OTHER -> "ValueError"

\* train.py 128-166: the model class of a (lowered) name, or the ValueError.
ModelClass(name) ==
    IF Contains(name, "unet")
    THEN IF Len(name) = 2 /\ name[1] \in Backbones /\ name[2] = "unet"
         THEN <<name[1], "UNet">> ELSE <<"ValueError">>
    ELSE IF Contains(name, "fpn")
    THEN IF Len(name) = 2 /\ name[1] \in Backbones /\ name[2] = "fpn"
         THEN <<name[1], "FPN">> ELSE <<"ValueError">>
    ELSE <<"ValueError">>

\* DataLoader: the batch sizes of a dataset of n items.
RECURSIVE Batches(_, _)
Batches(n, drop_last) ==
    IF n >= BatchSize THEN <<BatchSize>> \o Batches(n - BatchSize, drop_last)
    ELSE IF n > 0 /\ ~drop_last THEN <<n>>
    ELSE <<>>

\* ------------------------------------------------------------------- state
VARIABLES
    pc,            \* the script's position
    config,        \* the configuration files' values
    allocated,     \* the training resources constructed so far
    error,         \* the exception that ended the script, or "none"
    train_loader,  \* batch sizes of the training stream
    val_loader,    \* batch sizes of the validation stream
    model,         \* the live parameters
    optimizer,     \* [step, lr]
    scheduler,     \* StepLR's last_epoch
    ema_model,     \* [n_averaged, num]: the shadow is num / den^(n_averaged-1)
    loss_logger,   \* <<value, weight>>
    metrics,       \* the batches folded into the metric collection
    fed,           \* <<sum of size * loss, sum of size>> of the batches since the reset
    history,       \* the sequence of epoch records
    train_result,  \* the "train/" snapshot of the running epoch
    epoch,         \* the epoch index of train()'s loop
    i,             \* the batch index of the running pass
    progress,      \* the progress lines printed
    writer,        \* the scalars given to the TensorBoard writer
    csv,           \* the rows of history.csv
    disk,          \* the checkpoint files
    saving,        \* the path save_checkpoint is writing, or <<>>
    saved,         \* per path, <<the trainer state its last whole save was taken from,
                   \*   the number of whole saves of this run>>, or <<>>
    fresh,         \* a second Trainer, which loads a checkpoint (origin: the
                   \*   trainer state the file it read was saved from)
    ta,            \* a ThresholdAccuracy: [threshold, value, weight]
    seen,          \* what that metric has been given since its reset
    session        \* [resumes: the load_checkpoint calls made on the trainer,
                   \*  epochs: the epochs asked of train() so far,
                   \*  base: the rows of the history the last load restored]

vars == <<pc, config, allocated, error, train_loader, val_loader, model, optimizer,
          scheduler, ema_model, loss_logger, metrics, fed, history, train_result,
          epoch, i, progress, writer, csv, disk, saving, saved, fresh, ta, seen,
          session>>

scriptVars == <<pc, config, allocated, error, train_loader, val_loader>>
trainerVars == <<model, optimizer, scheduler, ema_model, loss_logger, metrics,
                 fed, history, train_result, epoch, i, progress, writer, csv>>
fileVars == <<disk, saving, saved, fresh>>
metricVars == <<ta, seen>>

\* ------------------------------------------------------------ checkpoints
FinalPath == <<0, "checkpoint.pkl">>
EpochPath(e) == <<e, "_epoch.pkl">>
Paths == {FinalPath} \cup {EpochPath(e) : e \in 1..MaxEpochs}

NoFile == <<>>
PartialFile == <<"partial">>
CompleteFile(checkpoints) == <<"complete", checkpoints>>

\* A checkpoint an earlier run of the script left at the final path.
OldCheckpoint == [model |-> 7, optimizer |-> [step |-> 9, lr |-> LearningRate],
                  history |-> << >>]

NoResult == [loss |-> <<0, 0>>, metrics |-> {}]
NoTrainer == [loaded |-> <<>>, origin |-> <<>>, model |-> 0,
              optimizer |-> [step |-> 0, lr |-> LearningRate], history |-> << >>]
\* train.py 180-182: the thresholds 1.25, 1.25^2, 1.25^3, as <<num, den>>.
Thresholds == {<<5, 4>>, <<25, 16>>, <<125, 64>>}
\* threshold_accuracy.py 7-9: a new metric of a threshold.
NewMetric(threshold) == [threshold |-> threshold, value |-> 0, weight |-> 0]
NoMetric == NewMetric(<<5, 4>>)
NoSeen == [below |-> 0, total |-> 0, equal |-> TRUE, double |-> TRUE, floored |-> FALSE]

Configs ==
    [transforms_level : TransformLevels, model_name : ModelNames,
     num_epochs : 0..MaxEpochs, save_checkpoint_per_num_epochs : -1..MaxInterval,
     verbose : 0..MaxVerbose, train_size : TrainSizes, val_size : ValSizes]

InitWith(start, c, files, metric) ==
    /\ pc = start
    /\ config = c
    /\ allocated = {}
    /\ error = "none"
    /\ train_loader = << >>
    /\ val_loader = << >>
    /\ model = 0
    /\ optimizer = [step |-> 0, lr |-> LearningRate]
    /\ scheduler = 0
    /\ ema_model = [n_averaged |-> 0, num |-> 0]
    /\ loss_logger = <<0, 0>>
    /\ metrics = {}
    /\ fed = <<0, 0>>
    /\ history = << >>
    /\ train_result = NoResult
    /\ epoch = 0
    /\ i = 0
    /\ progress = {}
    /\ writer = {}
    /\ csv = << >>
    /\ disk = [p \in Paths |-> IF p = FinalPath THEN files ELSE NoFile]
    /\ saving = <<>>
    /\ saved = [p \in Paths |-> IF p = FinalPath /\ files # NoFile
                                THEN <<OldCheckpoint, 0>> ELSE <<>>]
    /\ fresh = NoTrainer
    /\ ta = metric
    /\ seen = NoSeen
    /\ session = [resumes |-> 0, epochs |-> c.num_epochs, base |-> 0]

Init == \E c \in Configs : InitWith("transforms", c, NoFile, NoMetric)

\* ------------------------------------------------------------- the script
\* train.py 84-93
BuildTransforms ==
    /\ pc = "transforms"
    /\ IF TrainTransforms(config.transforms_level) = "ValueError"
       THEN pc' = "raised" /\ error' = "ValueError: Invalid transforms level"
       ELSE pc' = "datasets" /\ error' = error
    /\ UNCHANGED <<config, allocated, train_loader, val_loader>>
    /\ UNCHANGED <<trainerVars, fileVars, metricVars, session>>

\* train.py 95-125
BuildDataLoaders ==
    /\ pc = "datasets"
    /\ allocated' = allocated \cup {"train_dataset", "train_dataloader",
                                    "val_dataset", "val_dataloader"}
    /\ train_loader' = Batches(config.train_size, TRUE)
    /\ val_loader' = Batches(config.val_size, FALSE)
    /\ pc' = "model"
    /\ UNCHANGED <<config, error>>
    /\ UNCHANGED <<trainerVars, fileVars, metricVars, session>>

\* train.py 127-166
BuildModel ==
    /\ pc = "model"
    /\ IF ModelClass(LowerName(config.model_name)) = <<"ValueError">>
       THEN /\ pc' = "raised"
            /\ error' = "ValueError: Invalid model name"
            /\ allocated' = allocated
       ELSE /\ pc' = "trainer"
            /\ error' = error
            /\ allocated' = allocated \cup {"model", "criterion"}
    /\ UNCHANGED <<config, train_loader, val_loader>>
    /\ UNCHANGED <<trainerVars, fileVars, metricVars, session>>

\* train.py 169-200
BuildTrainer ==
    /\ pc = "trainer"
    /\ allocated' = allocated \cup {"ema_model", "optimizer", "scheduler",
                                    "metrics", "trainer", "writer"}
    /\ pc' = "epoch_loop"
    /\ UNCHANGED <<config, error, train_loader, val_loader>>
    /\ UNCHANGED <<trainerVars, fileVars, metricVars, session>>

\* ------------------------------------------------------------ the trainer
\* torchmetrics MeanMetric.update(value, weight): the running sums.
MeanUpdate(acc, value, weight) == <<acc[1] + value * weight, acc[2] + weight>>

\* base_trainer.py 65 and 77: self.loss_logger(loss.detach()), weight left at 1.
LogLoss(acc, loss, batch_size) == MeanUpdate(acc, loss, 1)

\* optimizer.step(): the parameters move against the gradient of the loss.
OptimizerStep(theta, loss) == theta - loss

RECURSIVE Pow(_, _)
Pow(b, n) == IF n = 0 THEN 1 ELSE b * Pow(b, n - 1)

\* AveragedModel.update_parameters with train.py's ema_avg: a copy of the live
\* parameters on the first update, the convex combination afterwards.
EmaUpdate(ema, theta) ==
    IF ema.n_averaged = 0
    THEN [n_averaged |-> 1, num |-> theta]
    ELSE [n_averaged |-> ema.n_averaged + 1,
          num |-> theta * (EmaWeight[2] - EmaWeight[1])
                        * Pow(EmaWeight[2], ema.n_averaged - 1)
                  + ema.num * EmaWeight[1]]

\* A validation batch that also steps the optimizer.
ValOneBatchWithStep(loss, batch_size, obs) ==
    [model |-> OptimizerStep(model, loss),
     optimizer |-> [optimizer EXCEPT !.step = @ + 1],
     ema_model |-> ema_model,
     loss_logger |-> MeanUpdate(loss_logger, loss, 1),
     metrics |-> metrics \cup {obs}]

\* base_trainer.py 70-80: what val_one_batch does to the parameters and the
\* optimizer (nothing) and to the accumulators.
ValOneBatchEffect(loss, batch_size, obs) ==
    [model |-> model, optimizer |-> optimizer, ema_model |-> ema_model,
     loss_logger |-> LogLoss(loss_logger, loss, batch_size),
     metrics |-> metrics \cup {obs}]

\* base_trainer.py 55-68: BaseTrainer.train_one_batch.
BaseTrainOneBatch(loss, batch_size, obs) ==
    [model |-> OptimizerStep(model, loss),
     optimizer |-> [optimizer EXCEPT !.step = @ + 1],
     ema_model |-> ema_model,
     loss_logger |-> LogLoss(loss_logger, loss, batch_size),
     metrics |-> metrics \cup {obs}]

\* EMATrainer.train_one_batch: the base step, then one update of the shadow from
\* the stepped parameters.
TrainOneBatchEffect(loss, batch_size, obs) ==
    [BaseTrainOneBatch(loss, batch_size, obs) EXCEPT
        !.ema_model = EmaUpdate(ema_model, OptimizerStep(model, loss))]

\* base_trainer.py 92, 101: i % verbose == 0, which divides by zero at verbose 0.
ProgressCheck(idx, verbose) ==
    IF verbose = 0 THEN "ZeroDivisionError"
    ELSE IF idx % verbose = 0 THEN "print" ELSE "quiet"

\* base_trainer.py 136-149
GetMetricsDict == [loss |-> loss_logger, metrics |-> metrics]

\* A reset that leaves the metric collection as it is.
ResetLossOnly == [loss_logger |-> <<0, 0>>, metrics |-> metrics]

\* base_trainer.py 151-154
ResetMetrics == [loss_logger |-> <<0, 0>>, metrics |-> {}]

\* The history replaced by the new record instead of extended by it.
HistoryOverwrite(h, result) == <<result>>

\* base_trainer.py 107-109
HistoryAppend(h, result) == Append(h, result)

\* A checkpoint after every epoch once the interval is positive.
ShouldSaveEveryEpoch(e, k) == k > 0

\* base_trainer.py 126
ShouldSave(e, k) == k > 0 /\ e % k = 0

\* StepLR.step()
SchedulerStep(opt, last_epoch) ==
    IF (last_epoch + 1) % StepSize = 0
    THEN [opt EXCEPT !.lr = <<@[1] * Gamma[1], @[2] * Gamma[2]>>]
    ELSE opt

\* base_trainer.py 161-165
Checkpoints == [model |-> model, optimizer |-> optimizer, history |-> history]

\* A load that restores the model and the optimizer and not the history.
LoadWithoutHistory(t, checkpoints) ==
    [t EXCEPT !.model = checkpoints.model, !.optimizer = checkpoints.optimizer]

\* base_trainer.py 168-176, on a trainer whose model, optimizer and history are set.
LoadCheckpoint(t, checkpoints) ==
    [t EXCEPT !.model = checkpoints.model,
              !.optimizer = checkpoints.optimizer,
              !.history = checkpoints.history]

\* base_trainer.py 116-117, 88-89: train()'s loop enters the next epoch, or ends.
BeginEpoch ==
    /\ pc = "epoch_loop"
    /\ IF epoch < config.num_epochs
       THEN epoch' = epoch + 1 /\ i' = 0 /\ pc' = "train_pass"
       ELSE epoch' = epoch /\ i' = i /\ pc' = "save_final"
    /\ UNCHANGED <<config, allocated, error, train_loader, val_loader>>
    /\ UNCHANGED <<model, optimizer, scheduler, ema_model, loss_logger, metrics,
                   fed, history, train_result, progress, writer, csv>>
    /\ UNCHANGED <<fileVars, metricVars, session>>

\* base_trainer.py 90-93
TrainOneBatch ==
    /\ pc = "train_pass"
    /\ i < Len(train_loader)
    /\ \E loss \in LossValues :
         LET e == TrainOneBatchEffect(loss, train_loader[i + 1], <<epoch, "train", i + 1>>)
         IN /\ fed' = <<fed[1] + train_loader[i + 1] * loss, fed[2] + train_loader[i + 1]>>
            /\ model' = e.model
            /\ optimizer' = e.optimizer
            /\ ema_model' = e.ema_model
            /\ loss_logger' = e.loss_logger
            /\ metrics' = e.metrics
    /\ i' = i + 1
    /\ LET c == ProgressCheck(i + 1, config.verbose)
       IN /\ pc' = IF c = "ZeroDivisionError" THEN "raised" ELSE pc
          /\ error' = IF c = "ZeroDivisionError" THEN c ELSE error
          /\ progress' = IF c = "print" THEN progress \cup {<<epoch, "train", i + 1>>}
                         ELSE progress
    /\ UNCHANGED <<config, allocated, train_loader, val_loader>>
    /\ UNCHANGED <<scheduler, history, train_result, epoch, writer, csv>>
    /\ UNCHANGED <<fileVars, metricVars, session>>

\* base_trainer.py 94-98
EndTrainPass ==
    /\ pc = "train_pass"
    /\ i = Len(train_loader)
    /\ train_result' = GetMetricsDict
    /\ writer' = writer \cup {<<"train/loss", loss_logger, epoch>>}
    /\ loss_logger' = ResetMetrics.loss_logger
    /\ metrics' = ResetMetrics.metrics
    /\ fed' = <<0, 0>>
    /\ i' = 0
    /\ pc' = "val_pass"
    /\ UNCHANGED <<config, allocated, error, train_loader, val_loader>>
    /\ UNCHANGED <<model, optimizer, scheduler, ema_model, history, epoch, progress, csv>>
    /\ UNCHANGED <<fileVars, metricVars, session>>

\* base_trainer.py 99-102
ValOneBatch ==
    /\ pc = "val_pass"
    /\ i < Len(val_loader)
    /\ \E loss \in LossValues :
         LET e == ValOneBatchEffect(loss, val_loader[i + 1], <<epoch, "val", i + 1>>)
         IN /\ fed' = <<fed[1] + val_loader[i + 1] * loss, fed[2] + val_loader[i + 1]>>
            /\ model' = e.model
            /\ optimizer' = e.optimizer
            /\ ema_model' = e.ema_model
            /\ loss_logger' = e.loss_logger
            /\ metrics' = e.metrics
    /\ i' = i + 1
    /\ LET c == ProgressCheck(i + 1, config.verbose)
       IN /\ pc' = IF c = "ZeroDivisionError" THEN "raised" ELSE pc
          /\ error' = IF c = "ZeroDivisionError" THEN c ELSE error
          /\ progress' = IF c = "print" THEN progress \cup {<<epoch, "val", i + 1>>}
                         ELSE progress
    /\ UNCHANGED <<config, allocated, train_loader, val_loader>>
    /\ UNCHANGED <<scheduler, history, train_result, epoch, writer, csv>>
    /\ UNCHANGED <<fileVars, metricVars, session>>

\* base_trainer.py 103-111 and, back in train(), 120-126
EndEpoch ==
    /\ pc = "val_pass"
    /\ i = Len(val_loader)
    /\ LET result == [Epoch |-> epoch, lr |-> optimizer.lr,
                      train |-> train_result, val |-> GetMetricsDict]
       IN /\ history' = HistoryAppend(history, result)
          /\ csv' = HistoryAppend(history, result)
    /\ writer' = writer \cup {<<"val/loss", loss_logger, epoch>>}
    /\ loss_logger' = ResetMetrics.loss_logger
    /\ metrics' = ResetMetrics.metrics
    /\ fed' = <<0, 0>>
    /\ optimizer' = SchedulerStep(optimizer, scheduler)
    /\ scheduler' = scheduler + 1
    /\ pc' = IF ShouldSave(epoch, config.save_checkpoint_per_num_epochs)
             THEN "save_epoch" ELSE "epoch_loop"
    /\ UNCHANGED <<config, allocated, error, train_loader, val_loader>>
    /\ UNCHANGED <<model, ema_model, train_result, epoch, i, progress>>
    /\ UNCHANGED <<fileVars, metricVars, session>>

\* The path of the save_checkpoint call the script is at:
\* base_trainer.py 127 and train.py 210.
SavePath == IF pc = "save_epoch" THEN EpochPath(epoch) ELSE FinalPath

\* base_trainer.py 166: torch.save opens the file at the path itself for writing,
\* which empties it.
SaveOpen ==
    /\ pc \in {"save_epoch", "save_final"}
    /\ saving = <<>>
    /\ saving' = SavePath
    /\ disk' = [disk EXCEPT ![SavePath] = PartialFile]
    /\ UNCHANGED <<saved, fresh>>
    /\ UNCHANGED <<scriptVars, trainerVars, metricVars, session>>

\* base_trainer.py 161-166: the bundle is written and the file closed.
SaveWrite ==
    /\ pc \in {"save_epoch", "save_final"}
    /\ saving # <<>>
    /\ disk' = [disk EXCEPT ![saving] = CompleteFile(Checkpoints)]
    /\ saved' = [saved EXCEPT ![saving] =
                    <<[model |-> model, optimizer |-> optimizer, history |-> history],
                      (IF @ = <<>> THEN 0 ELSE @[2]) + 1>>]
    /\ saving' = <<>>
    /\ pc' = IF pc = "save_epoch" THEN "epoch_loop" ELSE "final_csv"
    /\ UNCHANGED fresh
    /\ UNCHANGED <<config, allocated, error, train_loader, val_loader>>
    /\ UNCHANGED <<trainerVars, metricVars, session>>

\* base_trainer.py 166: the write fails (disk full, the process is killed) and
\* the error reaches the caller.
SaveFail ==
    /\ pc \in {"save_epoch", "save_final"}
    /\ saving # <<>>
    /\ saving' = <<>>
    /\ pc' = "raised"
    /\ error' = "OSError"
    /\ UNCHANGED <<disk, saved, fresh>>
    /\ UNCHANGED <<config, allocated, train_loader, val_loader>>
    /\ UNCHANGED <<trainerVars, metricVars, session>>

\* train.py 211
FinishScript ==
    /\ pc = "final_csv"
    /\ csv' = history
    /\ pc' = "done"
    /\ UNCHANGED <<config, allocated, error, train_loader, val_loader>>
    /\ UNCHANGED <<model, optimizer, scheduler, ema_model, loss_logger, metrics,
                   fed, history, train_result, epoch, i, progress, writer>>
    /\ UNCHANGED <<fileVars, metricVars, session>>

\* base_trainer.py 168-176: a fresh Trainer reads the file at a path; torch.load
\* of a file that is not a whole bundle raises and restores nothing.
FreshLoad ==
    /\ fresh.loaded = <<>>
    /\ \E p \in Paths :
         /\ disk[p] # NoFile
         /\ fresh' = IF disk[p] = PartialFile
                     THEN [fresh EXCEPT !.loaded = <<"partial", p>>]
                     ELSE [LoadCheckpoint(fresh, disk[p][2]) EXCEPT
                              !.loaded = <<"ok", p>>, !.origin = <<saved[p][1]>>]
    /\ UNCHANGED <<disk, saving, saved>>
    /\ UNCHANGED <<scriptVars, trainerVars, metricVars, session>>

Run ==
    \/ BuildTransforms
    \/ BuildDataLoaders
    \/ BuildModel
    \/ BuildTrainer
    \/ BeginEpoch
    \/ TrainOneBatch
    \/ EndTrainPass
    \/ ValOneBatch
    \/ EndEpoch
    \/ SaveOpen
    \/ SaveWrite
    \/ FinishScript

Next == Run

Spec == Init /\ [][Next]_vars

\* The script with a valid configuration, in a directory an earlier run may have
\* left its final checkpoint in, with writes that can fail and a reader.
ValidConfigs ==
    {c \in Configs : /\ c.transforms_level = "standard"
                     /\ c.model_name = <<"res", "unet">>
                     /\ c.verbose = 1
                     /\ c.train_size = 3}

InitCkpt == \E c \in ValidConfigs, f \in {NoFile, CompleteFile(OldCheckpoint)} :
                InitWith("transforms", c, f, NoMetric)

NextCkpt == Run \/ SaveFail \/ FreshLoad

SpecCkpt == InitCkpt /\ [][NextCkpt]_vars

\* base_trainer.py 168-176: once the script has ended, load_checkpoint is called
\* on the trainer with a whole checkpoint file, to resume from it.
LoadCheckpointCall ==
    /\ pc = "done"
    /\ session.resumes < MaxResumes
    /\ \E p \in Paths :
         /\ disk[p] \notin {NoFile, PartialFile}
         /\ LET t == LoadCheckpoint([model |-> model, optimizer |-> optimizer,
                                     history |-> history], disk[p][2])
            IN /\ model' = t.model
               /\ optimizer' = t.optimizer
               /\ history' = t.history
               /\ session' = [session EXCEPT !.resumes = @ + 1, !.base = Len(t.history)]
    /\ epoch' = 0
    /\ pc' = "resumed"
    /\ UNCHANGED <<config, allocated, error, train_loader, val_loader>>
    /\ UNCHANGED <<scheduler, ema_model, loss_logger, metrics, fed, train_result, i,
                   progress, writer, csv>>
    /\ UNCHANGED <<fileVars, metricVars>>

\* base_trainer.py 113-116, train.py 201-209: train() is called again, for m more
\* epochs; its loop counts from 1.
TrainCall ==
    /\ pc = "resumed"
    /\ \E m \in 0..MaxEpochs :
         /\ session.epochs + m <= MaxEpochs
         /\ config' = [config EXCEPT !.num_epochs = m]
         /\ session' = [session EXCEPT !.epochs = @ + m]
    /\ epoch' = 0
    /\ pc' = "epoch_loop"
    /\ UNCHANGED <<allocated, error, train_loader, val_loader>>
    /\ UNCHANGED <<model, optimizer, scheduler, ema_model, loss_logger, metrics, fed,
                   history, train_result, i, progress, writer, csv>>
    /\ UNCHANGED <<fileVars, metricVars>>

\* The script, then sessions that resume from a checkpoint it wrote and train on.
InitResume == \E c \in ValidConfigs : InitWith("transforms", c, NoFile, NoMetric)

NextResume == Run \/ LoadCheckpointCall \/ TrainCall

SpecResume == InitResume /\ [][NextResume]_vars

\* ------------------------------------------------- the threshold accuracy
\* Rationals <<num, den>> with den > 0.
RatLess(a, b) == a[1] * b[2] < b[1] * a[2]
RatMaximum(a, b) == IF RatLess(a, b) THEN b ELSE a

\* torch.clamp_min
ClampMin(x, floor) == IF x < floor THEN floor ELSE x

\* A mask that also counts a ratio equal to the threshold.
ThresholdMaskInclusive(p, t, threshold) ==
    LET preds == ClampMin(p, ClampFloor)
        target == ClampMin(t, ClampFloor)
        maximum == RatMaximum(<<preds, target>>, <<target, preds>>)
    IN IF RatLess(threshold, maximum) THEN 0 ELSE 1

\* threshold_accuracy.py 12-16: an element's entry of the mask.
ThresholdMask(p, t, threshold) ==
    LET preds == ClampMin(p, ClampFloor)
        target == ClampMin(t, ClampFloor)
        maximum == RatMaximum(<<preds, target>>, <<target, preds>>)
    IN IF RatLess(maximum, threshold) THEN 1 ELSE 0

RECURSIVE SumMask(_, _)
SumMask(batch, threshold) ==
    IF batch = << >> THEN 0
    ELSE ThresholdMask(Head(batch)[1], Head(batch)[2], threshold)
         + SumMask(Tail(batch), threshold)

\* threshold_accuracy.py 17: MeanMetric.update(mask), every element of weight 1.
MetricUpdate(m, batch) ==
    [m EXCEPT !.value = @ + SumMask(batch, m.threshold), !.weight = @ + Len(batch)]

\* MeanMetric.compute(): value / weight, as the pair.
MetricCompute(m) == <<m.value, m.weight>>

\* The batches of <<prediction, target>> elements an update can be given.
Elements == DepthValues \X DepthValues
MetricBatches == {<<e>> : e \in Elements} \cup {<<d, e>> : d \in Elements, e \in Elements}

Max2(a, b) == IF a < b THEN b ELSE a
Min2(a, b) == IF a < b THEN a ELSE b

\* Whether an element's ratio r = max(p'/t', t'/p') is strictly below the
\* threshold, from the definition of r.
RatioBelow(e, threshold) ==
    LET p == Max2(e[1], ClampFloor)
        t == Max2(e[2], ClampFloor)
    IN threshold[2] * Max2(p, t) < threshold[1] * Min2(p, t)

RECURSIVE Saw(_, _, _)
Saw(s, batch, threshold) ==
    IF batch = << >> THEN s
    ELSE LET e == Head(batch)
         IN Saw([below |-> s.below + (IF RatioBelow(e, threshold) THEN 1 ELSE 0),
                 total |-> s.total + 1,
                 equal |-> s.equal /\ e[1] = e[2],
                 double |-> s.double /\ e[1] = 2 * e[2],
                 floored |-> s.floored \/ e[2] < ClampFloor],
                Tail(batch), threshold)

\* threshold_accuracy.py 11-17
TaUpdate ==
    /\ pc = "metric"
    /\ \E batch \in MetricBatches :
         /\ seen.total + Len(batch) <= MaxElems
         /\ ta' = MetricUpdate(ta, batch)
         /\ seen' = Saw(seen, batch, ta.threshold)
    /\ UNCHANGED <<scriptVars, trainerVars, fileVars, session>>

\* MeanMetric.reset()
TaReset ==
    /\ pc = "metric"
    /\ ta' = NewMetric(ta.threshold)
    /\ seen' = NoSeen
    /\ UNCHANGED <<scriptVars, trainerVars, fileVars, session>>

InitMetric ==
    \E threshold \in Thresholds, c \in ValidConfigs :
        /\ c.num_epochs = 0
        /\ c.save_checkpoint_per_num_epochs = 0
        /\ InitWith("metric", c, NoFile, NewMetric(threshold))

NextMetric == TaUpdate \/ TaReset

SpecMetric == InitMetric /\ [][NextMetric]_vars

\* ================================================================== claims
IsComplete(f) == f # NoFile /\ f # PartialFile
Interval == config.save_checkpoint_per_num_epochs

\* The epochs whose two passes have both finished: the running epoch is not one
\* of them while its passes run, nor when a batch of it raised.
Completed ==
    IF pc \in {"train_pass", "val_pass"} \/ error = "ZeroDivisionError"
    THEN epoch - 1 ELSE epoch

\* The epochs train() has left behind, their checkpoint step included.
PastCheckpointStep(e) ==
    \/ e < epoch
    \/ e = epoch /\ pc \in {"epoch_loop", "save_final", "final_csv", "done"}

\* C1: a labeled checkpoint of epoch e is written if and only if the interval k
\* is positive and e is a multiple of k, and only once epoch e has completed;
\* the final checkpoint is written once, after the last epoch has completed.
C1_CheckpointSchedule ==
    /\ \A e \in 1..MaxEpochs :
         /\ disk[EpochPath(e)] # NoFile =>
               /\ Interval > 0 /\ e % Interval = 0
               /\ e <= Completed /\ e <= config.num_epochs
         /\ (PastCheckpointStep(e) /\ Interval > 0 /\ e % Interval = 0) =>
               /\ IsComplete(disk[EpochPath(e)])
               /\ saved[EpochPath(e)][2] = 1
    /\ disk[FinalPath] # NoFile =>
         /\ pc \in {"save_final", "final_csv", "done"}
         /\ Completed = config.num_epochs
    /\ pc \in {"final_csv", "done"} =>
         /\ IsComplete(disk[FinalPath])
         /\ saved[FinalPath][2] = 1

\* Three epochs at interval 2 have run to the end: a labeled checkpoint of
\* epoch 2 alone, and the final one.
C1_Witness ==
    /\ pc = "done"
    /\ config.num_epochs = 3 /\ Interval = 2
    /\ IsComplete(disk[EpochPath(2)])
    /\ disk[EpochPath(1)] = NoFile /\ disk[EpochPath(3)] = NoFile
    /\ IsComplete(disk[FinalPath])

\* C2: the history holds one row per completed epoch, with the epoch indices
\* 1..N in order; while an epoch's passes run its row is not there yet.
C2_HistoryRows ==
    /\ Len(history) = Completed
    /\ \A j \in 1..Len(history) : history[j].Epoch = j

C2_Witness == pc = "val_pass" /\ epoch = 3 /\ i = Len(val_loader) /\ Len(history) = 2

\* The batches of a pass of an epoch, as far as the pass has come.
PassBatches(e, phase, n) == {<<e, phase, j>> : j \in 1..n}

\* C3: the accumulators hold the batches of the running pass of the running
\* epoch and nothing else, so every "train/" snapshot is made of its epoch's
\* training batches and every "val/" snapshot of its epoch's validation batches.
C3_NoLeakage ==
    /\ pc = "train_pass" =>
         /\ metrics = PassBatches(epoch, "train", i)
         /\ loss_logger[2] = i
    /\ pc = "val_pass" =>
         /\ metrics = PassBatches(epoch, "val", i)
         /\ loss_logger[2] = i
         /\ train_result.metrics = PassBatches(epoch, "train", Len(train_loader))
    /\ \A j \in 1..Len(history) :
         /\ history[j].train.metrics = PassBatches(history[j].Epoch, "train", Len(train_loader))
         /\ history[j].val.metrics = PassBatches(history[j].Epoch, "val", Len(val_loader))
         /\ history[j].train.loss[2] = Len(train_loader)
         /\ history[j].val.loss[2] = Len(val_loader)

\* The second epoch's validation pass has begun, after its training pass.
C3_Witness == epoch = 2 /\ pc = "val_pass" /\ i = 1 /\ Len(history) = 1

\* C4: where a valid checkpoint was at a path, the file at the path is a whole
\* checkpoint at every moment and after a failed save, and no reader finds a
\* partial file.
C4_NeverPartial ==
    /\ \A p \in Paths : saved[p] # <<>> => IsComplete(disk[p])
    /\ fresh.loaded # <<>> => fresh.loaded[1] # "partial"

\* C5: a fresh Trainer that loads a saved checkpoint holds the model parameters,
\* the optimizer state and the history rows the saving trainer held at the save,
\* and a checkpoint has the three fields model, optimizer, history.
C5_RoundTrip ==
    /\ (fresh.loaded # <<>> /\ fresh.loaded[1] = "ok") =>
         /\ fresh.model = fresh.origin[1].model
         /\ fresh.optimizer = fresh.origin[1].optimizer
         /\ fresh.history = fresh.origin[1].history
    /\ \A p \in Paths : IsComplete(disk[p]) =>
         DOMAIN disk[p][2] = {"model", "optimizer", "history"}

\* The checkpoint of epoch 2 was loaded, and the saving trainer has gone on.
C5_Witness ==
    /\ fresh.loaded = <<"ok", EpochPath(2)>>
    /\ Len(fresh.history) = 2
    /\ optimizer.step = 3 /\ fresh.optimizer.step = 2

\* C6: the loss accumulator's mean is the batch-size-weighted mean of the
\* batch losses folded in since the reset.
C6_SizeWeightedLoss == loss_logger[1] * fed[2] = fed[1] * loss_logger[2]

C8_ProgressAndZeroVerbosity ==
    /\ \A line \in progress : config.verbose > 0 /\ line[3] % config.verbose = 0
    /\ (pc \in {"train_pass", "val_pass"} /\ config.verbose > 0) =>
          \A j \in 1..i : j % config.verbose = 0 =>
              <<epoch, IF pc = "train_pass" THEN "train" ELSE "val", j>> \in progress
    /\ error # "ZeroDivisionError"

\* The mean the metric computes is the fraction of the elements seen since the
\* reset whose ratio is strictly below the threshold.
FractionBelow == MetricCompute(ta) = <<seen.below, seen.total>>

\* C9 as stated: the fraction, which is 1 when predictions equal targets and,
\* at threshold 1.25, 0 when predictions are twice the targets.
C9_AsStated ==
    /\ FractionBelow
    /\ (seen.total > 0 /\ seen.equal) => ta.value = ta.weight
    /\ (seen.total > 0 /\ seen.double /\ ta.threshold = <<5, 4>>) => ta.value = 0

\* C9, amended: the fraction, which is 1 when predictions equal targets and, at
\* threshold 1.25, 0 when predictions are twice targets that are at least the
\* floor.
C9_ThresholdAccuracy ==
    /\ FractionBelow
    /\ (seen.total > 0 /\ seen.equal) => ta.value = ta.weight
    /\ (seen.total > 0 /\ seen.double /\ ~seen.floored /\ ta.threshold = <<5, 4>>)
          => ta.value = 0

\* Predictions twice their targets, the targets at the floor or above, at 1.25.
C9_Witness ==
    /\ seen.total >= 2 /\ seen.double /\ ~seen.floored
    /\ ta.threshold = <<5, 4>> /\ ta.value = 0

\* C10: a configuration error is raised with no training resource allocated.
C10_RaiseBeforeAllocation ==
    error \in {"ValueError: Invalid transforms level", "ValueError: Invalid model name"}
        => allocated = {}

\* C11: through train, save_checkpoint and load_checkpoint calls the history has
\* one row per epoch completed (the restored rows and the ones run since), its
\* epoch indices are 1, 2, ... with none repeated, and a labeled checkpoint file
\* that is written again holds the state of the epoch of its label.
C11_HistoryAcrossResume ==
    /\ Len(history) = session.base + Completed
    /\ \A j \in 1..Len(history) : history[j].Epoch = j
    /\ \A e \in 1..MaxEpochs :
         (IsComplete(disk[EpochPath(e)]) /\ saved[EpochPath(e)][2] >= 2) =>
             Len(disk[EpochPath(e)][2].history) = e
====
